---- MODULE Spec2Model ----
(***************************************************************************)
(* Model of libpub/golib:                                                  *)
(*   queues.OrderedQueue   (src/unnamed/part_000)                          *)
(*   queues.FIFOQueue      (src/unnamed/part_001)                          *)
(*   httpclient retry path (src/unittests/dsn_parse_test.go, the part      *)
(*                          that is package httpclient)                    *)
(* Slice indices are kept 0-based as in the Go source; a Go slice s is a   *)
(* TLA+ sequence and s[i] is written At(s, i).                             *)
(***************************************************************************)
EXTENDS Integers, Sequences, FiniteSets, TLC

\* ------------------------------------------------------------------ bounds
MaxLen == 4          \* Add/Push are not issued on a container of this size
MaxVal == 3          \* ordering values of container elements are 1..MaxVal

MaxClock == 11       \* two callers: the clock is not advanced beyond this second
MaxBudget == 2       \* two callers: WithRetry(n) is called with n in 0..MaxBudget
MaxLatency == 1      \* seconds the answer to a retry takes at most
MaxBackoffClock == 31    \* one caller: last second
MaxBackoffBudget == 5    \* one caller: largest n of WithRetry(n)
MaxAdders == 3          \* goroutines that call Add on one container concurrently
MaxMemLen == 3          \* slices in memory: Add is not issued on a container of this size

Ids == {"a", "b"}
Vals == 1..MaxVal
\* IElement as far as the containers look at it: GetID() and OrderingValue()
Elems == [id : Ids, ov : Vals]
\* the FIFO container never reads OrderingValue(); two values are enough to
\* see that it does not sort
FIFOVals == {1, 2}
FIFOElems == [id : Ids, ov : FIFOVals]
NoItem == [id |-> "none", ov |-> 0]
CutIdx == (0 - 1)..(MaxLen + 1)
PopCounts == (0 - 1)..(MaxLen + 1)
Adders == 1..MaxAdders
\* the *ComparisonObject arguments of FindElements: nil, or an object whose
\* Evaluate(e) accepts the elements with an ordering value of at least cmp
NilCmp == 0 - 1
Cmps == {NilCmp, 1, 2}

\* OrderingMode constants
OrderingAsc == 0
OrderingDesc == 1

\* httpclient constants
RetryDurationFactor == 5

\* the callers' requests; request r is the r-th HTTPQuery call made by a caller,
\* and the goroutine its afterQueryFailed starts (if any) is goroutine r
Reqs == {1, 2}
Nil == 0
NoTick == 0 - 1

\* defaultHTTPClientJSONOptions(): the options an HTTPQuery call starts from
\* (retries and shouldRetry, both 0 here, are kept beside the record)
defaultHTTPClientJSONOptions ==
    [headers |-> "json", tlsOptions |-> "nil", proxies |-> "nil", timeouts |-> 30,
     successStatus |-> {}]

\* the options a caller can arrive at with WithHTTPHeader, WithHTTPTLSOptions,
\* WithHTTPProxies, WithTimeout and WithSuccessStatusCodes
CallerOptions ==
    [headers : {"json", "custom"}, tlsOptions : {"nil", "tls"},
     proxies : {"nil", "proxy"}, timeouts : {30, 5}, successStatus : {{}, {"201"}}]

NoEntry == [id |-> 0, ov |-> 0, retries |-> 0, shouldRetry |-> 0,
            options |-> defaultHTTPClientJSONOptions]

VARIABLES
    impl,       \* which struct the behaviour exercises: "OrderedQueue" or "FIFOQueue"
    ordering,   \* OrderedQueue.ordering
    queue,      \* OrderedQueue.queue / FIFOQueue.queue
    m,          \* the container's sync.RWMutex: "unlocked", or "locked": held
                \* by a goroutine inside Add, or for good after an operation
                \* panicked between Lock and Unlock
    opName,     \* last operation called on the container
    argItem,    \* its IElement argument (NoItem when it has none)
    argInt,     \* its int argument (0 when it has none)
    retOk,      \* its bool result
    retInt,     \* its int result
    retItems,   \* its slice / single item result (a sequence)
    pre,        \* the container's sequence when the operation was called
    popped,     \* the items returned by the Pop calls made in a row up to now
    start,      \* the container's sequence when that row of Pop calls began
    adders,     \* adders[t]: goroutine t calling Add(item): where it is (pc)
                \* and the ql it read at line 53
    mem,        \* the slices in memory: the backing arrays (heap), the slice
                \* q.queue (q), the slice a caller got from Elements() (snap)
                \* and what that caller expects to find in it (snapVal)
    kafka       \* package kafka: the keys of kafkaInstances (instances), the
                \* Consumer of the worker made for each name (cons), and the
                \* last call made from outside with its argument, whether
                \* the name was registered when it was made, and its result

cvars == <<impl, ordering, queue, m, opName, argItem, argInt, retOk, retInt, retItems, pre,
           popped, start, adders, mem, kafka>>

\* httpclient: in the retry specification `queue` is the sequence of
\* _pendingRequestsQueue and its elements are requestEntity records:
\* id is GetID() (the url), ov is OrderingValue() (triggerTimestamp),
\* retries and shouldRetry are the two counters of options.
VARIABLES
    clock,      \* time.Now().Unix()
    timer,      \* _pendingRequestsTimer: Nil, or the goroutine whose ticker it holds
    tickC,      \* tickC[g]: the time held in the (1-buffered) channel of the
                \* ticker created by goroutine g, NoTick when it is empty
    loops,      \* loops[g]: goroutine g running pendingRequestsTimer: where it
                \* is (pc), the tick time it received (tim), the entry it
                \* popped (item), and for the tick it is in the entries that
                \* were queued and due when it began (due) and the entries it
                \* has sent again since (done)
    reqs,       \* reqs[r]: the caller's HTTPQuery call r and what became of it
    scn         \* what the run covers: the callers' requests, the largest
                \* budget they pass to WithRetry, the last second, and
                \* whether a retry's HTTPQuery may panic

hvars == <<scn, clock, timer, tickC, loops, reqs>>

Range(s) == {s[i] : i \in 1..Len(s)}
At(s, i) == s[i + 1]
\* Go s[lo:hi] for 0 <= lo <= hi <= len(s)
Slice(s, lo, hi) == SubSeq(s, lo + 1, hi)

\* ------------------------------------------------- OrderedQueue helpers
\* GoesLeft with the ordering mode ignored
GoesLeftNoMode(item, e, ord) == item.ov < e.ov

\* GoesLeft with the comparisons made non-strict
GoesLeftOrEqual(item, e, ord) ==
    IF ord = OrderingDesc THEN item.ov >= e.ov ELSE item.ov <= e.ov

\* the comparison of lines 296-300: does item go to the left of e
GoesLeft(item, e, ord) ==
    IF ord = OrderingDesc THEN item.ov > e.ov ELSE item.ov < e.ov

RECURSIVE FindLoop(_, _, _, _, _, _, _, _)
\* the for loop of findOrderedQueueInsertingIndex, one call per iteration
FindLoop(q, l, item, ord, idx, originIdx, minIdx, maxIdx) ==
    IF ~(idx < l) THEN idx
    ELSE LET left == GoesLeft(item, At(q, idx), ord) IN
         IF left /\ idx <= 0 THEN idx
         ELSE LET mn == IF left THEN minIdx ELSE idx + 1
                  mx == IF left THEN idx - 1 ELSE maxIdx
                  nidx == (mn + mx + 1) \div 2
              IN IF nidx = originIdx THEN nidx
                 ELSE FindLoop(q, l, item, ord, nidx, nidx, mn, mx)

findOrderedQueueInsertingIndex(q, l, item, ord) ==
    IF 0 >= l THEN 0
    ELSE FindLoop(q, l, item, ord, l \div 2, l \div 2, 0, l - 1)

\* pushItemToOrderedQueue without the search: the item goes to the end
pushItemToOrderedQueueAtEnd(q, l, item, ord) == Append(q, item)

pushItemToOrderedQueue(q, l, item, ord) ==
    IF 0 >= l THEN <<item>>
    ELSE LET idx == findOrderedQueueInsertingIndex(q, l, item, ord) IN
         IF idx >= l THEN Append(q, item)
         ELSE Slice(q, 0, idx) \o <<item>> \o Slice(q, idx, l)

SetMin(S) == CHOOSE x \in S : \A y \in S : x <= y
SetMax(S) == CHOOSE x \in S : \A y \in S : x >= y

\* findElementIndex without its second (downward) scan loop
findElementIndexUpOnly(q, item, ord) ==
    LET l == Len(q) IN
    IF 0 >= l THEN 0 - 1
    ELSE LET idx == findOrderedQueueInsertingIndex(q, l, item, ord)
             max == IF idx + 2 > l THEN l ELSE idx + 2
             up == {c \in idx..(max - 1) : item.id = At(q, c).id}
         IN IF up # {} THEN SetMin(up) ELSE 0 - 1

\* OrderedQueue.findElementIndex: -1 or the 0-based index of the element found
findElementIndex(q, item, ord) ==
    LET l == Len(q) IN
    IF 0 >= l THEN 0 - 1
    ELSE LET idx == findOrderedQueueInsertingIndex(q, l, item, ord)
             max == IF idx + 2 > l THEN l ELSE idx + 2
             min == IF 0 - 1 > idx - 2 THEN 0 - 1 ELSE idx - 2
             up == {c \in idx..(max - 1) : item.id = At(q, c).id}
             down == {c \in (min + 1)..(idx - 1) : item.id = At(q, c).id}
         IN IF up # {} THEN SetMin(up)
            ELSE IF down # {} THEN SetMax(down)
            ELSE 0 - 1

\* DeleteAt taking the next element away as well
DeleteAtAndNext(s, i) == Slice(s, 0, i) \o Slice(s, i + 2, Len(s))

\* s with the element at 0-based index i deleted: append(s[0:i], s[i+1:]...)
DeleteAt(s, i) == Slice(s, 0, i) \o Slice(s, i + 1, Len(s))

\* backing arrays are numbered; a slice is the array it points into and its
\* length (q.queue never starts inside an array); array 0 is the array of
\* the empty literal []IElement{}, which has no cells
ArrIds == 1..3
EmptySlice == [arr |-> 0, len |-> 0]
NoMem == [heap |-> [a \in ArrIds |-> <<>>], q |-> EmptySlice, snap |-> EmptySlice,
          snapVal |-> <<>>]

\* the names (mqConnName) under which InitKafka is called
Names == {"k1", "k2"}

\* the offsets a topic's messages have: 0..MaxOffset
MaxOffset == 2

\* m.Value of the message at offset o, and the Value of the zero Message
Payload(o) == <<"value", o>>
NilValue == <<>>

\* the Consumer of a worker that NewKafkaWorker has not made: pc is where the
\* goroutine of Receive is ("none" before Receive), Readers, running and
\* cancels say whether the maps hold the topic's key, ctx is "cancelled" once
\* the cancel of the read in progress was called; called lists the messages
\* handed to the callback, each with whether its read had succeeded, and
\* skipped the offsets of the read messages the guard dropped
NoConsumer ==
    [pc |-> "none", Readers |-> FALSE, running |-> FALSE, cancels |-> FALSE,
     ctx |-> "none", OffsetDict |-> 0, called |-> <<>>, skipped |-> {}]

NoKafka ==
    [instances |-> {}, cons |-> [n \in Names |-> NoConsumer],
     op |-> "none", name |-> "", found |-> FALSE, err |-> "nil"]

\* no goroutine is inside Add
NoAdders == [t \in Adders |-> [pc |-> "none", item |-> NoItem, ql |-> 0]]

\* ------------------------------------------------------------------ Init
\* package httpclient before the first HTTPQuery
HInit ==
    /\ clock = 0
    /\ timer = Nil
    /\ tickC = [g \in Reqs |-> NoTick]
    /\ loops = [g \in Reqs |-> [pc |-> "none", tim |-> 0, item |-> NoEntry,
                                published |-> FALSE, due |-> {}, done |-> <<>>]]
    /\ reqs = [r \in Reqs |-> [pc |-> "idle", shouldRetry |-> 0, dispatched |-> 0,
                               succeeded |-> FALSE, synced |-> FALSE,
                               options |-> defaultHTTPClientJSONOptions,
                               used |-> defaultHTTPClientJSONOptions]]

Init ==
    /\ impl \in {"OrderedQueue", "FIFOQueue"}
    /\ ordering \in {OrderingAsc, OrderingDesc}
    /\ impl = "FIFOQueue" => ordering = OrderingAsc
    /\ queue = <<>>
    /\ m = "unlocked"
    /\ opName = "New"
    /\ argItem = NoItem
    /\ argInt = 0
    /\ retOk = FALSE
    /\ retInt = 0
    /\ retItems = <<>>
    /\ pre = <<>>
    /\ popped = <<>>
    /\ start = <<>>
    /\ adders = NoAdders
    /\ mem = NoMem
    /\ kafka = NoKafka
    /\ HInit
    /\ scn = [reqs |-> {}, maxBudget |-> 0, maxClock |-> 0, panics |-> FALSE,
             options |-> {defaultHTTPClientJSONOptions}, codes |-> {}]

\* what the Pop calls made in a row before this call returned
PoppedSoFar == IF opName = "Pop" THEN popped ELSE <<>>

\* what every operation records about its call
Called(name, item, int) ==
    /\ opName' = name
    /\ argItem' = item
    /\ argInt' = int
    /\ pre' = queue
    /\ start' = IF name # "Pop" THEN <<>> ELSE IF opName = "Pop" THEN start ELSE queue
    /\ name # "Pop" => popped' = <<>>
    /\ UNCHANGED <<impl, ordering, adders, mem, kafka>>
    /\ UNCHANGED hvars

\* ------------------------------------------------- OrderedQueue operations
Add ==
    /\ impl = "OrderedQueue" /\ m = "unlocked" /\ Len(queue) < MaxLen
    /\ \E item \in Elems :
        /\ Called("Add", item, 0)
        /\ queue' = pushItemToOrderedQueue(queue, Len(queue), item, ordering)
        /\ retOk' = TRUE /\ retInt' = 0 /\ retItems' = <<>>
        /\ UNCHANGED m

Push ==
    /\ impl = "OrderedQueue" /\ m = "unlocked" /\ Len(queue) < MaxLen
    /\ \E item \in Elems :
        /\ Called("Push", item, 0)
        /\ queue' = pushItemToOrderedQueue(queue, Len(queue), item, ordering)
        /\ retOk' = TRUE /\ retInt' = 0 /\ retItems' = <<>>
        /\ UNCHANGED m

\* Pop taking the last element instead of the first
PopFromEnd ==
    /\ impl = "OrderedQueue" /\ m = "unlocked"
    /\ Called("Pop", NoItem, 0)
    /\ IF Len(queue) <= 0
       THEN /\ retOk' = FALSE /\ retItems' = <<>> /\ UNCHANGED queue
       ELSE /\ retOk' = TRUE /\ retItems' = <<At(queue, Len(queue) - 1)>>
            /\ queue' = Slice(queue, 0, Len(queue) - 1)
    /\ popped' = PoppedSoFar \o retItems'
    /\ retInt' = 0
    /\ UNCHANGED m

Pop ==
    /\ impl = "OrderedQueue" /\ m = "unlocked"
    /\ Called("Pop", NoItem, 0)
    /\ IF Len(queue) <= 0
       THEN /\ retOk' = FALSE /\ retItems' = <<>> /\ UNCHANGED queue
       ELSE /\ retOk' = TRUE /\ retItems' = <<At(queue, 0)>>
            /\ queue' = Slice(queue, 1, Len(queue))
    /\ popped' = PoppedSoFar \o retItems'
    /\ retInt' = 0
    /\ UNCHANGED m

\* PopMany without lines 87-89: maxLen is not limited to the size, and
\* q.queue[maxLen:] panics when maxResults exceeds it
PopManyNoClamp ==
    /\ impl = "OrderedQueue" /\ m = "unlocked"
    /\ \E maxResults \in PopCounts :
        /\ Called("PopMany", NoItem, maxResults)
        /\ IF 0 >= Len(queue) \/ 0 >= maxResults
           THEN /\ retItems' = <<>> /\ retInt' = 0 /\ retOk' = FALSE
                /\ UNCHANGED <<queue, m>>
           ELSE IF maxResults > Len(queue)
           THEN /\ m' = "locked" /\ retOk' = FALSE /\ retItems' = <<>> /\ retInt' = 0
                /\ UNCHANGED queue
           ELSE /\ retItems' = Slice(queue, 0, maxResults)
                /\ retInt' = maxResults
                /\ retOk' = TRUE
                /\ queue' = Slice(queue, maxResults, Len(queue))
                /\ UNCHANGED m

PopMany ==
    /\ impl = "OrderedQueue" /\ m = "unlocked"
    /\ \E maxResults \in PopCounts :
        /\ Called("PopMany", NoItem, maxResults)
        /\ IF 0 >= Len(queue) \/ 0 >= maxResults
           THEN /\ retItems' = <<>> /\ retInt' = 0 /\ retOk' = FALSE
                /\ UNCHANGED queue
           ELSE LET maxLen == IF Len(queue) > maxResults THEN maxResults ELSE Len(queue) IN
                /\ retItems' = Slice(queue, 0, maxLen)
                /\ retInt' = maxLen
                /\ retOk' = TRUE
                /\ queue' = Slice(queue, maxLen, Len(queue))
        /\ UNCHANGED m

Remove ==
    /\ impl = "OrderedQueue" /\ m = "unlocked"
    /\ \E item \in Elems :
        /\ Called("Remove", item, 0)
        /\ LET idx == findElementIndex(queue, item, ordering) IN
           IF 0 > idx
           THEN /\ retOk' = FALSE /\ UNCHANGED queue
           ELSE /\ retOk' = TRUE /\ queue' = DeleteAt(queue, idx)
        /\ retInt' = 0 /\ retItems' = <<>>
        /\ UNCHANGED m

First ==
    /\ impl = "OrderedQueue" /\ m = "unlocked"
    /\ Called("First", NoItem, 0)
    /\ IF Len(queue) <= 0
       THEN retOk' = FALSE /\ retItems' = <<>>
       ELSE retOk' = TRUE /\ retItems' = <<At(queue, 0)>>
    /\ retInt' = 0
    /\ UNCHANGED <<queue, m>>

\* the first element of q whose GetID() is ID, as a sequence of one (none: <<>>)
ScanForID(q, ID) ==
    LET S == {i \in 1..Len(q) : q[i].id = ID} IN
    IF S = {} THEN <<>> ELSE <<q[SetMin(S)]>>

GetElement ==
    /\ impl = "OrderedQueue" /\ m = "unlocked"
    /\ \E ID \in Ids :
        /\ Called("GetElement", [id |-> ID, ov |-> 0], 0)
        /\ retItems' = ScanForID(queue, ID)
        /\ retOk' = (ScanForID(queue, ID) # <<>>)
    /\ retInt' = 0
    /\ UNCHANGED <<queue, m>>

FindElements ==
    /\ impl = "OrderedQueue" /\ m = "unlocked"
    /\ \E cmp \in Cmps :
        /\ Called("FindElements", NoItem, cmp)
        /\ retItems' = IF cmp = NilCmp THEN <<>>
                       ELSE SelectSeq(queue, LAMBDA e : e.ov >= cmp)
    /\ retOk' = TRUE /\ retInt' = 0
    /\ UNCHANGED <<queue, m>>

\* Elements returns a copy of the slice
Elements ==
    /\ impl = "OrderedQueue" /\ m = "unlocked"
    /\ Called("Elements", NoItem, 0)
    /\ retItems' = queue
    /\ retOk' = TRUE /\ retInt' = 0
    /\ UNCHANGED <<queue, m>>

GetSize ==
    /\ impl = "OrderedQueue" /\ m = "unlocked"
    /\ Called("GetSize", NoItem, 0)
    /\ retInt' = Len(queue)
    /\ retOk' = TRUE /\ retItems' = <<>>
    /\ UNCHANGED <<queue, m>>

\* Go panics on q.queue[idx:] (and on q.queue[:idx] beyond the capacity) when
\* idx > len(q.queue); the panic leaves q.m locked, there is no deferred Unlock.
\* CutBefore returning the cut without taking it out of the container
CutBeforeKeeps ==
    /\ impl = "OrderedQueue" /\ m = "unlocked"
    /\ \E idx \in CutIdx :
        /\ Called("CutBefore", NoItem, idx)
        /\ IF 0 > idx
           THEN /\ retItems' = <<>> /\ retOk' = TRUE /\ UNCHANGED <<queue, m>>
           ELSE IF Len(queue) >= idx
           THEN /\ retItems' = queue /\ retOk' = TRUE /\ UNCHANGED <<queue, m>>
           ELSE /\ m' = "locked" /\ retOk' = FALSE /\ retItems' = <<>> /\ UNCHANGED queue
        /\ retInt' = 0

CutBefore ==
    /\ impl = "OrderedQueue" /\ m = "unlocked"
    /\ \E idx \in CutIdx :
        /\ Called("CutBefore", NoItem, idx)
        /\ IF 0 > idx
           THEN /\ retItems' = <<>> /\ retOk' = TRUE /\ UNCHANGED <<queue, m>>
           ELSE IF Len(queue) >= idx
           THEN /\ retItems' = queue /\ queue' = <<>> /\ retOk' = TRUE /\ UNCHANGED m
           ELSE /\ m' = "locked" /\ retOk' = FALSE /\ retItems' = <<>> /\ UNCHANGED queue
        /\ retInt' = 0

\* CutAfter treating a negative index as CutBefore does
CutAfterNegativeNoop ==
    /\ impl = "OrderedQueue" /\ m = "unlocked"
    /\ \E idx \in CutIdx :
        /\ Called("CutAfter", NoItem, idx)
        /\ IF 0 > idx
           THEN /\ retItems' = <<>> /\ retOk' = TRUE /\ UNCHANGED <<queue, m>>
           ELSE IF Len(queue) >= idx
           THEN /\ retItems' = <<>> /\ retOk' = TRUE /\ UNCHANGED <<queue, m>>
           ELSE /\ m' = "locked" /\ retOk' = FALSE /\ retItems' = <<>> /\ UNCHANGED queue
        /\ retInt' = 0

CutAfter ==
    /\ impl = "OrderedQueue" /\ m = "unlocked"
    /\ \E idx \in CutIdx :
        /\ Called("CutAfter", NoItem, idx)
        /\ IF 0 > idx
           THEN /\ retItems' = queue /\ queue' = <<>> /\ retOk' = TRUE /\ UNCHANGED m
           ELSE IF Len(queue) >= idx
           THEN /\ retItems' = <<>> /\ retOk' = TRUE /\ UNCHANGED <<queue, m>>
           ELSE /\ m' = "locked" /\ retOk' = FALSE /\ retItems' = <<>> /\ UNCHANGED queue
        /\ retInt' = 0

\* ---------------------------------------------------- FIFOQueue operations
\* FIFOQueue.Push inserting by ordering value as OrderedQueue.Push does
FIFOPushSorted ==
    /\ impl = "FIFOQueue" /\ m = "unlocked" /\ Len(queue) < MaxLen
    /\ \E item \in FIFOElems :
        /\ Called("Push", item, 0)
        /\ queue' = pushItemToOrderedQueue(queue, Len(queue), item, ordering)
        /\ retOk' = TRUE /\ retInt' = 0 /\ retItems' = <<>>
        /\ UNCHANGED m

FIFOPush ==
    /\ impl = "FIFOQueue" /\ m = "unlocked" /\ Len(queue) < MaxLen
    /\ \E item \in FIFOElems :
        /\ Called("Push", item, 0)
        /\ queue' = Append(queue, item)
        /\ retOk' = TRUE /\ retInt' = 0 /\ retItems' = <<>>
        /\ UNCHANGED m

FIFOPop ==
    /\ impl = "FIFOQueue" /\ m = "unlocked"
    /\ Called("Pop", NoItem, 0)
    /\ IF Len(queue) <= 0
       THEN /\ retOk' = FALSE /\ retItems' = <<>> /\ UNCHANGED queue
       ELSE /\ retOk' = TRUE /\ retItems' = <<At(queue, 0)>>
            /\ queue' = Slice(queue, 1, Len(queue))
    /\ popped' = PoppedSoFar \o retItems'
    /\ retInt' = 0
    /\ UNCHANGED m

FIFOPopMany ==
    /\ impl = "FIFOQueue" /\ m = "unlocked"
    /\ \E maxResults \in PopCounts :
        /\ Called("PopMany", NoItem, maxResults)
        /\ IF 0 >= Len(queue) \/ 0 >= maxResults
           THEN /\ retItems' = <<>> /\ retInt' = 0 /\ retOk' = FALSE
                /\ UNCHANGED queue
           ELSE LET maxLen == IF Len(queue) > maxResults THEN maxResults ELSE Len(queue) IN
                /\ retItems' = Slice(queue, 0, maxLen)
                /\ retInt' = maxLen
                /\ retOk' = TRUE
                /\ queue' = Slice(queue, maxLen, Len(queue))
        /\ UNCHANGED m

\* FIFOQueue.Remove deleting the last element with the identity
FIFORemoveLast ==
    /\ impl = "FIFOQueue" /\ m = "unlocked"
    /\ \E item \in FIFOElems :
        /\ Called("Remove", item, 0)
        /\ LET S == {i \in 0..(Len(queue) - 1) : At(queue, i).id = item.id} IN
           IF S = {}
           THEN /\ retOk' = FALSE /\ UNCHANGED queue
           ELSE /\ retOk' = TRUE /\ queue' = DeleteAt(queue, SetMax(S))
        /\ retInt' = 0 /\ retItems' = <<>>
        /\ UNCHANGED m

\* the range loop stops at the first i with e.GetID() == item.GetID()
FIFORemove ==
    /\ impl = "FIFOQueue" /\ m = "unlocked"
    /\ \E item \in FIFOElems :
        /\ Called("Remove", item, 0)
        /\ LET S == {i \in 0..(Len(queue) - 1) : At(queue, i).id = item.id} IN
           IF S = {}
           THEN /\ retOk' = FALSE /\ UNCHANGED queue
           ELSE /\ retOk' = TRUE /\ queue' = DeleteAt(queue, SetMin(S))
        /\ retInt' = 0 /\ retItems' = <<>>
        /\ UNCHANGED m

FIFOElements ==
    /\ impl = "FIFOQueue" /\ m = "unlocked"
    /\ Called("Elements", NoItem, 0)
    /\ retItems' = queue
    /\ retOk' = TRUE /\ retInt' = 0
    /\ UNCHANGED <<queue, m>>

FIFOCutBefore ==
    /\ impl = "FIFOQueue" /\ m = "unlocked"
    /\ \E idx \in CutIdx :
        /\ Called("CutBefore", NoItem, idx)
        /\ IF 0 > idx
           THEN /\ retItems' = <<>> /\ retOk' = TRUE /\ UNCHANGED <<queue, m>>
           ELSE IF Len(queue) >= idx
           THEN /\ retItems' = queue /\ queue' = <<>> /\ retOk' = TRUE /\ UNCHANGED m
           ELSE /\ m' = "locked" /\ retOk' = FALSE /\ retItems' = <<>> /\ UNCHANGED queue
        /\ retInt' = 0

FIFOCutAfter ==
    /\ impl = "FIFOQueue" /\ m = "unlocked"
    /\ \E idx \in CutIdx :
        /\ Called("CutAfter", NoItem, idx)
        /\ IF 0 > idx
           THEN /\ retItems' = queue /\ queue' = <<>> /\ retOk' = TRUE /\ UNCHANGED m
           ELSE IF Len(queue) >= idx
           THEN /\ retItems' = <<>> /\ retOk' = TRUE /\ UNCHANGED <<queue, m>>
           ELSE /\ m' = "locked" /\ retOk' = FALSE /\ retItems' = <<>> /\ UNCHANGED queue
        /\ retInt' = 0

Next ==
    \/ Add \/ Push \/ Pop \/ PopMany \/ Remove \/ Elements \/ GetSize
    \/ First \/ GetElement \/ FindElements
    \/ CutBefore \/ CutAfter
    \/ FIFOPush \/ FIFOPop \/ FIFOPopMany \/ FIFORemove \/ FIFOElements
    \/ FIFOCutBefore \/ FIFOCutAfter

vars == <<cvars, hvars>>

Spec == Init /\ [][Next]_vars

\* ------------------------------------------- concurrent callers of Add
\* a Lock that never waits
LockableAlways(mm) == TRUE

\* Lock of the container's mutex returns when nobody holds it
Lockable(mm) == mm = "unlocked"

\* Add, lines 52-53: q.m.Lock(); ql := len(q.queue)
AdderLock(t) ==
    /\ adders[t].pc = "ready"
    /\ Lockable(m)
    /\ m' = "locked"
    /\ adders' = [adders EXCEPT ![t].pc = "locked", ![t].ql = Len(queue)]
    /\ UNCHANGED <<impl, ordering, queue, opName, argItem, argInt, retOk, retInt,
                   retItems, pre, popped, start, mem, kafka>>
    /\ UNCHANGED hvars

\* Add, lines 54-55: the push with the ql read before, then q.m.Unlock()
AdderPush(t) ==
    /\ adders[t].pc = "locked"
    /\ queue' = pushItemToOrderedQueue(queue, adders[t].ql, adders[t].item, ordering)
    /\ m' = "unlocked"
    /\ adders' = [adders EXCEPT ![t].pc = "done"]
    /\ opName' = "Add" /\ argItem' = adders[t].item /\ argInt' = 0 /\ pre' = queue
    /\ retOk' = TRUE /\ retInt' = 0 /\ retItems' = <<>>
    /\ UNCHANGED <<impl, ordering, popped, start, mem, kafka>>
    /\ UNCHANGED hvars

\* every goroutine has returned from Add
AllAdded == \A t \in Adders : adders[t].pc \in {"none", "done"}

\* an empty ordered container and up to MaxAdders goroutines, each about to
\* call Add with an element of its own
InitAdders ==
    /\ impl = "OrderedQueue"
    /\ ordering \in {OrderingAsc, OrderingDesc}
    /\ queue = <<>>
    /\ m = "unlocked"
    /\ opName = "New"
    /\ argItem = NoItem
    /\ argInt = 0
    /\ retOk = FALSE
    /\ retInt = 0
    /\ retItems = <<>>
    /\ pre = <<>>
    /\ popped = <<>>
    /\ start = <<>>
    /\ adders \in [Adders -> {[pc |-> "none", item |-> NoItem, ql |-> 0]}
                               \cup {[pc |-> "ready", item |-> e, ql |-> 0] : e \in Elems}]
    /\ mem = NoMem
    /\ kafka = NoKafka
    /\ HInit
    /\ scn = [reqs |-> {}, maxBudget |-> 0, maxClock |-> 0, panics |-> FALSE,
             options |-> {defaultHTTPClientJSONOptions}, codes |-> {}]

\* the Add calls in any interleaving, then Pop calls
NextAdders ==
    \/ \E t \in Adders : AdderLock(t)
    \/ \E t \in Adders : AdderPush(t)
    \/ AllAdded /\ Pop

SpecAdders == InitAdders /\ [][NextAdders]_vars

\* ------------------------------------- the container's slice in memory
\* Go slices share backing arrays: s[lo:hi] and an append within the capacity
\* point into the array of s, an append beyond it allocates.  The operations
\* below are the OrderedQueue methods with every slice expression carried out
\* on the arrays; `queue` is kept next to them as the sequence the methods
\* are meant to hold.
MemElems == {[id |-> "a", ov |-> 1], [id |-> "b", ov |-> 2]}
\* the value a caller writes into the slice it got from Elements()
Scribble == [id |-> "x", ov |-> 0]

RECURSIVE NilCells(_)
\* n cells holding the zero value
NilCells(n) == IF n <= 0 THEN <<>> ELSE Append(NilCells(n - 1), NoItem)

\* the elements of slice h, and its capacity
MemContents(heap, h) == IF h.arr = 0 THEN <<>> ELSE SubSeq(heap[h.arr], 1, h.len)
MemCap(heap, h) == IF h.arr = 0 THEN 0 ELSE Len(heap[h.arr])

\* an array that neither q.queue nor the caller's slice points into
FreeArr(used) == SetMin(ArrIds \ used)

\* append(h, xs...): within the capacity the cells behind h are overwritten
\* in place; beyond it a new array is allocated (the runtime doubles the
\* capacity, or takes what is needed when that is more)
GoAppend(heap, h, xs, used) ==
    LET need == h.len + Len(xs)
        cap == MemCap(heap, h)
    IN IF xs = <<>> THEN [heap |-> heap, s |-> h]
       ELSE IF need <= cap
       THEN [heap |-> [heap EXCEPT ![h.arr] =
                          SubSeq(@, 1, h.len) \o xs \o SubSeq(@, need + 1, Len(@))],
             s |-> [arr |-> h.arr, len |-> need]]
       ELSE LET newcap == IF need > 2 * cap THEN need ELSE 2 * cap
                a == FreeArr(used)
            IN [heap |-> [heap EXCEPT ![a] =
                             MemContents(heap, h) \o xs \o NilCells(newcap - need)],
                s |-> [arr |-> a, len |-> need]]

\* pushItemToOrderedQueue on the arrays (lines 269-283)
MemPushItem(heap, q, l, item, ord, used) ==
    IF 0 >= l
    THEN GoAppend(heap, EmptySlice, <<item>>, used)
    ELSE LET idx == findOrderedQueueInsertingIndex(MemContents(heap, q), l, item, ord) IN
         IF idx >= l THEN GoAppend(heap, q, <<item>>, used)
         ELSE LET tails == Slice(MemContents(heap, q), idx, l)
                  r == GoAppend(heap, [arr |-> q.arr, len |-> idx], <<item>>, used)
              IN GoAppend(r.heap, r.s, tails, used)

\* the memory after an operation, up to what no slice can read: arrays
\* nothing points into are collected, and the cells of an array behind the
\* longest slice pointing into it are forgotten (an append writes them
\* before any slice reaches them)
MemAfter(heap, q, snap, snapVal) ==
    LET seen(a) == SetMax({0} \cup {h.len : h \in {h \in {q, snap} : h.arr = a}}) IN
    [heap |-> [a \in ArrIds |->
                  IF a \in {q.arr, snap.arr}
                  THEN SubSeq(heap[a], 1, seen(a)) \o NilCells(Len(heap[a]) - seen(a))
                  ELSE <<>>],
     q |-> q, snap |-> snap, snapVal |-> snapVal]

MemUsed == {mem.q.arr, mem.snap.arr}

\* what an operation on the arrays records about its call
MemCalled(name) ==
    /\ impl = "OrderedQueue" /\ m = "unlocked"
    /\ opName' = name
    /\ UNCHANGED <<impl, ordering, m, argItem, argInt, retOk, retInt, retItems, pre,
                   popped, start, adders, kafka>>
    /\ UNCHANGED hvars

MemAdd ==
    /\ Len(queue) < MaxMemLen
    /\ MemCalled("Add")
    /\ \E item \in MemElems :
        LET r == MemPushItem(mem.heap, mem.q, mem.q.len, item, ordering, MemUsed) IN
        /\ mem' = MemAfter(r.heap, r.s, mem.snap, mem.snapVal)
        /\ queue' = pushItemToOrderedQueue(queue, Len(queue), item, ordering)

MemPop ==
    /\ MemCalled("Pop")
    /\ IF mem.q.len <= 0
       THEN UNCHANGED <<mem, queue>>
       ELSE LET r == GoAppend(mem.heap, EmptySlice,
                              Slice(MemContents(mem.heap, mem.q), 1, mem.q.len), MemUsed) IN
            /\ mem' = MemAfter(r.heap, r.s, mem.snap, mem.snapVal)
            /\ queue' = Slice(queue, 1, Len(queue))

MemPopMany ==
    /\ MemCalled("PopMany")
    /\ \E maxResults \in 0..(MaxMemLen + 1) :
        IF 0 >= mem.q.len \/ 0 >= maxResults
        THEN UNCHANGED <<mem, queue>>
        ELSE LET maxLen == IF mem.q.len > maxResults THEN maxResults ELSE mem.q.len
                 r == GoAppend(mem.heap, EmptySlice,
                               Slice(MemContents(mem.heap, mem.q), maxLen, mem.q.len), MemUsed)
             IN /\ mem' = MemAfter(r.heap, r.s, mem.snap, mem.snapVal)
                /\ queue' = Slice(queue, maxLen, Len(queue))

\* line 120: append(q.queue[0:idx], q.queue[idx+1:]...) moves the tail down
\* inside the array of q.queue
MemRemove ==
    /\ MemCalled("Remove")
    /\ \E item \in MemElems :
        LET c == MemContents(mem.heap, mem.q)
            idx == findElementIndex(c, item, ordering)
        IN IF 0 > idx
           THEN UNCHANGED <<mem, queue>>
           ELSE LET r == GoAppend(mem.heap, [arr |-> mem.q.arr, len |-> idx],
                                  Slice(c, idx + 1, mem.q.len), MemUsed) IN
                /\ mem' = MemAfter(r.heap, r.s, mem.snap, mem.snapVal)
                /\ queue' = DeleteAt(queue, idx)

\* the cuts for an index up to the size (beyond it they panic)
MemCutBefore ==
    /\ MemCalled("CutBefore")
    /\ \E idx \in (0 - 1)..mem.q.len :
        IF 0 > idx
        THEN UNCHANGED <<mem, queue>>
        ELSE /\ mem' = MemAfter(mem.heap, EmptySlice, mem.snap, mem.snapVal)
             /\ queue' = <<>>

MemCutAfter ==
    /\ MemCalled("CutAfter")
    /\ \E idx \in (0 - 1)..mem.q.len :
        IF 0 > idx
        THEN /\ mem' = MemAfter(mem.heap, EmptySlice, mem.snap, mem.snapVal)
             /\ queue' = <<>>
        ELSE UNCHANGED <<mem, queue>>

\* Elements handing out q.queue itself
MemElementsShared ==
    /\ MemCalled("Elements")
    /\ mem' = MemAfter(mem.heap, mem.q, mem.q, MemContents(mem.heap, mem.q))
    /\ UNCHANGED queue

\* line 128: elements := append([]IElement{}, q.queue...); the slice the
\* caller held before is dropped
MemElements ==
    /\ MemCalled("Elements")
    /\ LET r == GoAppend(mem.heap, EmptySlice, MemContents(mem.heap, mem.q), {mem.q.arr}) IN
       mem' = MemAfter(r.heap, mem.q, r.s, MemContents(mem.heap, mem.q))
    /\ UNCHANGED queue

\* First, GetElement, FindElements and GetSize read q.queue and write nothing
MemFirst == MemCalled("First") /\ UNCHANGED <<mem, queue>>

MemGetElement == MemCalled("GetElement") /\ UNCHANGED <<mem, queue>>

MemFindElements == MemCalled("FindElements") /\ UNCHANGED <<mem, queue>>

MemGetSize == MemCalled("GetSize") /\ UNCHANGED <<mem, queue>>

\* the caller of Elements() assigns to an element of the slice it got
MemWrite ==
    /\ mem.snap.arr # 0
    /\ MemCalled("Write")
    /\ \E i \in 1..mem.snap.len :
        mem' = [mem EXCEPT !.heap[mem.snap.arr][i] = Scribble, !.snapVal[i] = Scribble]
    /\ UNCHANGED queue

InitMem ==
    /\ impl = "OrderedQueue"
    /\ ordering \in {OrderingAsc, OrderingDesc}
    /\ queue = <<>>
    /\ m = "unlocked"
    /\ opName = "New"
    /\ argItem = NoItem
    /\ argInt = 0
    /\ retOk = FALSE
    /\ retInt = 0
    /\ retItems = <<>>
    /\ pre = <<>>
    /\ popped = <<>>
    /\ start = <<>>
    /\ adders = NoAdders
    /\ mem = NoMem
    /\ kafka = NoKafka
    /\ HInit
    /\ scn = [reqs |-> {}, maxBudget |-> 0, maxClock |-> 0, panics |-> FALSE,
             options |-> {defaultHTTPClientJSONOptions}, codes |-> {}]

NextMem ==
    \/ MemAdd \/ MemPop \/ MemPopMany \/ MemRemove \/ MemCutBefore \/ MemCutAfter
    \/ MemElements \/ MemFirst \/ MemGetElement \/ MemFindElements \/ MemGetSize
    \/ MemWrite

SpecMem == InitMem /\ [][NextMem]_vars

\* ======================================================================
\* package httpclient: the retry path of HTTPQuery
\* ======================================================================
\* formatRetryDuration with the factor of the unused retryDuration of line 433
formatRetryDurationPlusOne(retries) ==
    IF retries < 3 THEN RetryDurationFactor ELSE RetryDurationFactor * (retries + 1)

\* formatRetryDuration with the regimes switching one retry late
formatRetryDurationLate(retries) ==
    IF retries <= 3 THEN RetryDurationFactor ELSE RetryDurationFactor * retries

\* formatRetryDuration without a delay
formatRetryDurationNone(retries) ==
    retries - retries

formatRetryDuration(retries) ==
    IF retries < 3 THEN RetryDurationFactor ELSE RetryDurationFactor * retries

\* the budget test without its guard opts.shouldRetry > 0
HasBudgetNoGuard(retries, shouldRetry) ==
    retries <= shouldRetry

\* the budget test with > for >=
HasBudgetOffByOne(retries, shouldRetry) ==
    shouldRetry > 0 /\ ~(retries > shouldRetry)

\* afterQueryFailed, lines 428-432: is the failed attempt re-queued
HasBudget(retries, shouldRetry) ==
    shouldRetry > 0 /\ ~(retries >= shouldRetry)

\* the requestEntity afterQueryFailed builds (lines 436-442): options: *opts
\* copies the option struct of the failed attempt
NewEntity(url, retries, shouldRetry, opts, now) ==
    [id |-> url, ov |-> now + formatRetryDuration(retries),
     retries |-> retries, shouldRetry |-> shouldRetry, options |-> opts]

\* afterQueryFailed up to and including _pendingRequestsQueue.Push(re)
afterQueryFailed(url, retries, shouldRetry, opts) ==
    IF HasBudget(retries, shouldRetry)
    THEN queue' = pushItemToOrderedQueue(queue, Len(queue),
                      NewEntity(url, retries, shouldRetry, opts, clock), ordering)
    ELSE UNCHANGED queue

\* HTTPQuery lines 383-386: the answer counts as a success when its status is
\* 200 ("ok") or a status the options of the attempt accept
IsSuccess(outcome, opts) ==
    outcome = "ok" \/ outcome \in opts.successStatus

\* the options a re-dispatch runs with: HTTPQuery starts from
\* defaultHTTPClientJSONOptions() (line 337) and applies the closure of
\* checkRetryEntity (lines 487-494), which restores headers, proxies,
\* timeouts and tlsOptions (and retries, shouldRetry) from the entry
RetryOptions(re) ==
    [defaultHTTPClientJSONOptions EXCEPT
        !.headers = re.options.headers,
        !.proxies = re.options.proxies,
        !.timeouts = re.options.timeouts,
        !.tlsOptions = re.options.tlsOptions]

\* goroutines that passed line 461: each created a ticker and runs the loop
Running == {g \in Reqs : loops[g].pc \in {"wait", "pop", "check"}}

\* goroutines whose write of _pendingRequestsTimer was followed by a queue
\* operation of theirs (an Unlock that a later Lock synchronises with)
Published == {g \in Reqs : loops[g].published}

hist == <<opName, argItem, argInt, retOk, retInt, retItems, pre, popped, start, adders, mem,
          kafka>>

\* a panic that no function of the goroutine recovers ends the process:
\* neither pendingRequestsTimer nor checkRetryEntity defers a recover
Crashed == \E g \in Reqs : loops[g].pc = "panicked"

\* some goroutine has a step to take that waits for nothing: the caller
\* between lines 443 and 444, a started goroutine before its loop, a loop
\* with a tick to receive or about to Pop, or a retry that has been waiting
\* for its answer as long as answers take
Busy ==
    \/ \E r \in Reqs : reqs[r].pc = "failed"
    \/ \E g \in Reqs : loops[g].pc \in {"start", "new", "pop"}
    \/ \E g \in Reqs : loops[g].pc = "wait" /\ \E k \in Running : tickC[k] # NoTick
    \/ \E g \in Reqs : loops[g].pc = "check" /\ clock - loops[g].tim >= MaxLatency

\* one second passes; every ticker sends the time on its channel, which
\* keeps one value and drops the tick when it is still full.  The clock
\* counts the seconds since the first HTTPQuery call.  Time passes while the
\* goroutines wait (for a tick, or inside checkRetryEntity for the answer to
\* a retry); the steps in between take less than a second.
Second ==
    /\ ~Crashed
    /\ clock < scn.maxClock
    /\ reqs[1].pc # "idle"
    /\ ~Busy
    /\ clock' = clock + 1
    /\ tickC' = [g \in Reqs |->
                    IF g \in Running /\ tickC[g] = NoTick THEN clock + 1 ELSE tickC[g]]
    /\ UNCHANGED <<cvars, scn, timer, loops, reqs>>

\* a caller's HTTPQuery with WithRetry(b) and the options opts, up to the Push
\* of afterQueryFailed: the call returns an error before anything is sent
\* (lines 330-348), or it reaches client.Do and succeeds, or it fails on one
\* of lines 356-360, 367-373, 394-397, each of which calls afterQueryFailed
\* with opts.retries = 0.  The answer is 200 ("ok"), one of the other
\* statuses the run covers (scn.codes), or a failure whatever the options
\* ("fail": no answer, or a status nobody accepts).
HTTPQuery(r) ==
    /\ ~Crashed
    /\ reqs[r].pc = "idle"
    /\ \A q \in scn.reqs : q < r => reqs[q].pc # "idle"
    /\ \E b \in 0..scn.maxBudget, opts \in scn.options,
          outcome \in {"error", "ok", "fail"} \cup scn.codes :
        LET failed == outcome # "error" /\ ~IsSuccess(outcome, opts) IN
        /\ reqs' = [reqs EXCEPT ![r] =
                [pc |-> IF failed /\ HasBudget(0, b) THEN "failed" ELSE "done",
                 shouldRetry |-> b,
                 dispatched |-> IF outcome = "error" THEN 0 ELSE 1,
                 succeeded |-> (outcome # "error" /\ IsSuccess(outcome, opts)),
                 synced |-> (Published # {}),
                 options |-> opts,
                 used |-> opts]]
        /\ IF failed THEN afterQueryFailed(r, 0, b, opts) ELSE UNCHANGED queue
    /\ UNCHANGED <<impl, ordering, m, hist, scn, clock, timer, tickC, loops>>

\* afterQueryFailed lines 444-446 in the caller: the unsynchronised read of
\* _pendingRequestsTimer.  It can return nil unless a write is ordered before
\* it (through the queue's mutex), and a non-nil value once one was written.
StartTimer(r) ==
    /\ ~Crashed
    /\ reqs[r].pc = "failed"
    /\ \E seesNil \in BOOLEAN :
        /\ seesNil => (timer = Nil \/ ~reqs[r].synced)
        /\ ~seesNil => timer # Nil
        /\ loops' = IF seesNil THEN [loops EXCEPT ![r].pc = "start"] ELSE loops
    /\ reqs' = [reqs EXCEPT ![r].pc = "done"]
    /\ UNCHANGED <<cvars, scn, clock, timer, tickC>>

\* pendingRequestsTimer lines 458-460: the new goroutine's read of
\* _pendingRequestsTimer, ordered after nothing but its own go statement
TimerStart(g) ==
    /\ ~Crashed
    /\ loops[g].pc = "start"
    /\ \E seesNil \in BOOLEAN :
        /\ ~seesNil => timer # Nil
        /\ loops' = [loops EXCEPT ![g].pc = IF seesNil THEN "new" ELSE "exit"]
    /\ UNCHANGED <<cvars, scn, clock, timer, tickC, reqs>>

\* line 461: _pendingRequestsTimer = time.NewTicker(1 * time.Second)
TimerNew(g) ==
    /\ ~Crashed
    /\ loops[g].pc = "new"
    /\ timer' = g
    /\ loops' = [loops EXCEPT ![g].pc = "wait"]
    /\ UNCHANGED <<cvars, scn, clock, tickC, reqs>>

\* lines 462-467: a tick is received from the channel of the ticker that the
\* read of _pendingRequestsTimer returns (the goroutine's own, or another
\* one written without ordering)
TimerTick(g) ==
    /\ ~Crashed
    /\ loops[g].pc = "wait"
    /\ \E k \in Running :
        /\ tickC[k] # NoTick
        /\ loops' = [loops EXCEPT ![g].pc = "pop", ![g].tim = tickC[k],
                                  ![g].due = {e \in Range(queue) : e.ov <= tickC[k]}]
        /\ tickC' = [tickC EXCEPT ![k] = NoTick]
    /\ UNCHANGED <<cvars, scn, clock, timer, reqs>>

\* line 469: item, ok = _pendingRequestsQueue.Pop()
TimerPop(g) ==
    /\ ~Crashed
    /\ loops[g].pc = "pop" /\ m = "unlocked"
    /\ IF Len(queue) <= 0
       THEN /\ loops' = [loops EXCEPT ![g].pc = "wait", ![g].tim = 0,
                                      ![g].published = TRUE,
                                      ![g].due = {}, ![g].done = <<>>]
            /\ UNCHANGED queue
       ELSE /\ loops' = [loops EXCEPT ![g].pc = "check", ![g].item = At(queue, 0),
                                      ![g].published = TRUE]
            /\ queue' = Slice(queue, 1, Len(queue))
    /\ UNCHANGED <<impl, ordering, m, hist, scn, clock, timer, tickC, reqs>>

\* checkRetryEntity(item, tim).  A due entry is sent again by HTTPQuery with
\* retries = re.options.retries + 1 and the call returns inside the tick; its
\* failure runs afterQueryFailed, whose test of line 444 reads the non-nil
\* value this goroutine wrote itself.  An entry that is not due is pushed
\* back and ends the tick.  A panic inside the retry's HTTPQuery (scn.panics)
\* unwinds checkRetryEntity and pendingRequestsTimer, which recover nothing.
checkRetryEntity(g) ==
    /\ ~Crashed
    /\ loops[g].pc = "check" /\ m = "unlocked"
    /\ LET re == loops[g].item IN
       IF re.ov <= loops[g].tim
       THEN \E outcome \in {"ok", "fail"} \cup scn.codes
                                \cup (IF scn.panics THEN {"panic"} ELSE {}) :
                LET opts == RetryOptions(re)
                    failed == outcome # "panic" /\ ~IsSuccess(outcome, opts)
                IN
                /\ reqs' = [reqs EXCEPT ![re.id].dispatched = @ + 1,
                                        ![re.id].succeeded = IsSuccess(outcome, opts),
                                        ![re.id].used = opts]
                /\ IF failed
                   THEN afterQueryFailed(re.id, re.retries + 1, re.shouldRetry, opts)
                   ELSE UNCHANGED queue
                /\ loops' = IF outcome = "panic"
                            THEN [loops EXCEPT ![g].pc = "panicked"]
                            ELSE [loops EXCEPT ![g].pc = "pop", ![g].item = NoEntry,
                                               ![g].done = Append(@, re)]
       ELSE /\ queue' = pushItemToOrderedQueue(queue, Len(queue), re, ordering)
            /\ loops' = [loops EXCEPT ![g].pc = "wait", ![g].tim = 0, ![g].item = NoEntry,
                                      ![g].due = {}, ![g].done = <<>>]
            /\ UNCHANGED reqs
    /\ UNCHANGED <<impl, ordering, m, hist, scn, clock, timer, tickC>>

\* _pendingRequestsQueue = queues.NewAscOrderingQueue(), _pendingRequestsTimer = nil
InitQueues ==
    /\ impl = "OrderedQueue"
    /\ ordering = OrderingAsc
    /\ queue = <<>>
    /\ m = "unlocked"
    /\ opName = "New"
    /\ argItem = NoItem
    /\ argInt = 0
    /\ retOk = FALSE
    /\ retInt = 0
    /\ retItems = <<>>
    /\ pre = <<>>
    /\ popped = <<>>
    /\ start = <<>>
    /\ adders = NoAdders
    /\ mem = NoMem
    /\ kafka = NoKafka
    /\ HInit

\* two callers, small budgets
InitRetry ==
    /\ InitQueues
    /\ scn = [reqs |-> Reqs, maxBudget |-> MaxBudget, maxClock |-> MaxClock,
             panics |-> FALSE,
             options |-> {defaultHTTPClientJSONOptions}, codes |-> {}]

\* one caller, budgets and time enough for the linear regime of the backoff
InitBackoff ==
    /\ InitQueues
    /\ scn = [reqs |-> {1}, maxBudget |-> MaxBackoffBudget, maxClock |-> MaxBackoffClock,
             panics |-> FALSE,
             options |-> {defaultHTTPClientJSONOptions}, codes |-> {}]

NextRetry ==
    \/ Second
    \/ \E r \in scn.reqs : HTTPQuery(r)
    \/ \E r \in scn.reqs : StartTimer(r)
    \/ \E g \in scn.reqs : TimerStart(g)
    \/ \E g \in scn.reqs : TimerNew(g)
    \/ \E g \in scn.reqs : TimerTick(g)
    \/ \E g \in scn.reqs : TimerPop(g)
    \/ \E g \in scn.reqs : checkRetryEntity(g)

SpecRetry == InitRetry /\ [][NextRetry]_vars

SpecBackoff == InitBackoff /\ [][NextRetry]_vars

\* two callers, and the HTTPQuery of a retry may panic
InitPanic ==
    /\ InitQueues
    /\ scn = [reqs |-> Reqs, maxBudget |-> MaxBudget, maxClock |-> MaxClock,
             panics |-> TRUE,
             options |-> {defaultHTTPClientJSONOptions}, codes |-> {}]

SpecPanic == InitPanic /\ [][NextRetry]_vars

\* one caller with any of the options, and a server that may answer 201
InitConfig ==
    /\ InitQueues
    /\ scn = [reqs |-> {1}, maxBudget |-> MaxBudget, maxClock |-> MaxClock,
             panics |-> FALSE, options |-> CallerOptions, codes |-> {"201"}]

SpecConfig == InitConfig /\ [][NextRetry]_vars

\* ======================================================================
\* package kafka: the registry of workers and the consumer's dispatch loop
\* ======================================================================
\* what a call on the registry or a step of a consumer leaves alone
nonKafka == <<impl, ordering, queue, m, opName, argItem, argInt, retOk, retInt, retItems,
              pre, popped, start, adders, mem, hvars>>

\* a call made from outside and what it returned
KafkaCalled(op, name, err, instances, cons) ==
    /\ kafka' = [instances |-> instances, cons |-> cons, op |-> op, name |-> name,
                 found |-> (name \in kafka.instances), err |-> err]
    /\ UNCHANGED nonKafka

\* NewConsumer: every map empty; a read of OffsetDict finds no key and
\* yields 0
NewConsumer == NoConsumer

\* InitKafka(mqConnName, config): a name that is not registered gets a new
\* worker (whose Consumer NewConsumer makes); the call returns the registered
\* worker and no error.  A name is registered anew only once the goroutine
\* of the consumer it had before has ended.
InitKafka(n) ==
    /\ n \notin kafka.instances => kafka.cons[n].pc \in {"none", "exited"}
    /\ KafkaCalled("InitKafka", n, "nil",
                   kafka.instances \cup {n},
                   IF n \in kafka.instances THEN kafka.cons
                   ELSE [kafka.cons EXCEPT ![n] = NewConsumer])

\* GetKafka(mqConnName)
GetKafka(n) ==
    /\ n \in Names
    /\ KafkaCalled("GetKafka", n, IF n \in kafka.instances THEN "nil" ELSE "not found",
                   kafka.instances, kafka.cons)

\* Consumer.StopConsumer as StopKafka runs it: for the subscribed topic,
\* running[k] = false, then the call of cancels[k], which is nil (the call
\* panics) until the goroutine of Receive has stored its first cancel
StopConsumer(c) ==
    IF ~c.Readers THEN c
    ELSE [c EXCEPT !.running = FALSE,
                   !.ctx = IF c.cancels /\ c.ctx = "live" THEN "cancelled" ELSE @]

\* StopKafka(mqConnName): a registered instance has its consumer stopped and
\* its key deleted; the function ends with its only return statement, the
\* not-found error (line 117).  When the call of a nil cancel panics, the
\* key is not deleted and nothing is returned.
StopKafka(n) ==
    LET c == kafka.cons[n]
        panics == n \in kafka.instances /\ c.Readers /\ ~c.cancels
    IN
    /\ n \in Names
    /\ KafkaCalled("StopKafka", n, IF panics THEN "panic" ELSE "not found",
                   IF panics THEN kafka.instances ELSE kafka.instances \ {n},
                   IF n \in kafka.instances
                   THEN [kafka.cons EXCEPT ![n] = StopConsumer(c)]
                   ELSE kafka.cons)

\* Consumer.Receive(topic, callback) on the worker registered under n, up to
\* the go statement (lines 202-252, 278)
Receive(n) ==
    LET c == kafka.cons[n] IN
    /\ n \in kafka.instances
    /\ KafkaCalled("Receive", n, IF c.Readers THEN "already subscribed" ELSE "nil",
                   kafka.instances,
                   IF c.Readers THEN kafka.cons
                   ELSE [kafka.cons EXCEPT ![n] =
                            [c EXCEPT !.Readers = TRUE, !.running = TRUE,
                                      !.OffsetDict = 0 - 1, !.pc = "spawned"]])

\* the loop test of line 254 and, when it passes, lines 255-257 up to the
\* call of reader.ReadMessage; when it fails the goroutine ends
LoopTest(c) ==
    IF c.running
    THEN [c EXCEPT !.pc = "reading", !.cancels = TRUE, !.ctx = "live"]
    ELSE [c EXCEPT !.pc = "exited"]

\* the goroutine of Receive reaches its loop
LoopEnter(n) ==
    /\ kafka.cons[n].pc = "spawned"
    /\ kafka' = [kafka EXCEPT !.cons[n] = LoopTest(kafka.cons[n])]
    /\ UNCHANGED nonKafka

\* the offsets of the messages that reads of the topic have returned so far
ReadSoFar(c) ==
    {c.called[i].Offset : i \in {i \in 1..Len(c.called) : c.called[i].ok}} \cup c.skipped

\* the offsets the reader can return next: anywhere when it has returned
\* nothing yet (StartOffset), later the next offset or, after a reconnect, a
\* message it has returned before
NextOffsets(c) ==
    IF ReadSoFar(c) = {} THEN 0..MaxOffset
    ELSE {o \in 0..MaxOffset : o <= SetMax(ReadSoFar(c)) + 1 /\ o >= SetMin(ReadSoFar(c))}

\* the zero Message that ReadMessage returns with an error
ZeroMessage == [Offset |-> 0, Value |-> NilValue, ok |-> FALSE]

\* lines 261-273: the guard on the message's offset, the update of
\* OffsetDict and the call of the callback
Dispatch(c, msg) ==
    IF msg.Offset > c.OffsetDict
    THEN [c EXCEPT !.OffsetDict = msg.Offset, !.called = Append(@, msg)]
    ELSE [c EXCEPT !.skipped = IF msg.ok THEN @ \cup {msg.Offset} ELSE @]

\* one iteration of the loop from the return of reader.ReadMessage (line
\* 257): the read returns a message, or an error (always so once its context
\* was cancelled) that is logged; the guard and the callback follow in both
\* cases, then the loop test
ReadMessage(n) ==
    LET c == kafka.cons[n] IN
    /\ c.pc = "reading"
    /\ \E msg \in {ZeroMessage} \cup
                  {[Offset |-> o, Value |-> Payload(o), ok |-> TRUE] : o \in NextOffsets(c)} :
        /\ msg.ok => c.ctx = "live"
        /\ kafka' = [kafka EXCEPT !.cons[n] = LoopTest(Dispatch(c, msg))]
    /\ UNCHANGED nonKafka

InitRegistry ==
    /\ InitQueues
    /\ scn = [reqs |-> {}, maxBudget |-> 0, maxClock |-> 0, panics |-> FALSE,
             options |-> {defaultHTTPClientJSONOptions}, codes |-> {}]

NextKafka ==
    \/ \E n \in Names : InitKafka(n)
    \/ \E n \in Names : GetKafka(n)
    \/ \E n \in Names : StopKafka(n)
    \/ \E n \in Names : Receive(n)
    \/ \E n \in Names : LoopEnter(n)
    \/ \E n \in Names : ReadMessage(n)

SpecKafka == InitRegistry /\ [][NextKafka]_vars

\* ======================================================================
\* Properties of the containers (specification Spec)
\* ======================================================================
IsOrdered == impl = "OrderedQueue"

\* s is sorted for the ordering mode ord
SortedBy(s, ord) ==
    \A i \in 1..(Len(s) - 1) :
        IF ord = OrderingDesc THEN s[i].ov >= s[i + 1].ov ELSE s[i].ov <= s[i + 1].ov

\* C1: whatever operations were called, the sequence of an ascending
\* OrderedQueue is non-decreasing by OrderingValue and the sequence of a
\* descending one is non-increasing.
C1_SortInvariant == IsOrdered => SortedBy(queue, ordering)

\* an Add/Push that put its item strictly inside a descending queue, between
\* an element of a larger key and an element of a smaller key
C1_Witness ==
    /\ IsOrdered /\ ordering = OrderingDesc /\ opName \in {"Add", "Push"}
    /\ Len(queue) >= 3
    /\ queue[1].ov > argItem.ov /\ argItem.ov > queue[Len(queue)].ov

\* number of elements of s that are not after key v in mode ord
NotAfter(s, v, ord) ==
    Cardinality({i \in 1..Len(s) :
        IF ord = OrderingDesc THEN s[i].ov >= v ELSE s[i].ov <= v})

\* C2: Add/Push puts the new item just after every element whose key is equal
\* to (or before) its key and before every element of a later key, so that
\* elements of equal OrderingValue stay in the order in which they were added.
C2_InsertionStability ==
    (IsOrdered /\ opName \in {"Add", "Push"}) =>
        LET p == NotAfter(pre, argItem.ov, ordering) IN
        queue = SubSeq(pre, 1, p) \o <<argItem>> \o SubSeq(pre, p + 1, Len(pre))

\* an item added to a queue that holds another element of the same key and an
\* element of a later key: the new one sits right behind the older equal one
C2_Witness ==
    /\ IsOrdered /\ opName \in {"Add", "Push"}
    /\ \E i \in 1..(Len(queue) - 2) :
        /\ queue[i].ov = argItem.ov /\ queue[i].id # argItem.id
        /\ queue[i + 1] = argItem
        /\ queue[i + 2].ov # argItem.ov

\* C3 (as claimed): CutBefore(idx) with 0 <= idx <= size returns exactly the
\* elements at positions < idx and leaves exactly those at positions >= idx,
\* in the ordered and in the FIFO container.
C3_CutBeforeSplits ==
    (opName = "CutBefore" /\ 0 <= argInt /\ argInt <= Len(pre)) =>
        /\ retItems = SubSeq(pre, 1, argInt)
        /\ queue = SubSeq(pre, argInt + 1, Len(pre))

\* C4 (as claimed): CutAfter(idx) with 0 <= idx < size returns exactly the
\* elements at positions > idx and leaves exactly those at positions <= idx,
\* in the ordered and in the FIFO container.
C4_CutAfterSplits ==
    (opName = "CutAfter" /\ 0 <= argInt /\ argInt < Len(pre)) =>
        /\ retItems = SubSeq(pre, argInt + 2, Len(pre))
        /\ queue = SubSeq(pre, 1, argInt + 1)

\* s with one element of identity id deleted, the others in their order
IsOneDeleted(s, t, id) ==
    \E i \in 1..Len(s) : s[i].id = id /\ t = DeleteAt(s, i - 1)

\* C5 (as claimed): Remove(item) succeeds whenever an element with item's
\* identity sits at one of the positions e-2, e-1, e, e+1 around the
\* insertion estimate e for item's ordering value.
C5_RemoveWindow ==
    (IsOrdered /\ opName = "Remove" /\
     LET e == findOrderedQueueInsertingIndex(pre, Len(pre), argItem, ordering) IN
     \E c \in (e - 2)..(e + 1) : 0 <= c /\ c < Len(pre) /\ At(pre, c).id = argItem.id)
    => (retOk /\ IsOneDeleted(pre, queue, argItem.id))

\* the elements of s have pairwise distinct ordering values
DistinctKeys(s) == \A i, j \in 1..Len(s) : i # j => s[i].ov # s[j].ov

\* item is present in s: the one element carrying item's identity is item
\* itself, with the ordering value it was inserted with
Present(s, item) ==
    /\ \E i \in 1..Len(s) : s[i] = item
    /\ \A i \in 1..Len(s) : s[i].id = item.id => s[i] = item
    /\ Cardinality({i \in 1..Len(s) : s[i].id = item.id}) = 1

\* C6: in an OrderedQueue of pairwise distinct ordering values, Remove(item)
\* of an item that is present returns true and leaves the previous sequence
\* with exactly that element deleted.
C6_RemoveDistinct ==
    (IsOrdered /\ opName = "Remove" /\ DistinctKeys(pre) /\ Present(pre, argItem)) =>
        /\ retOk
        /\ \E i \in 1..Len(pre) : pre[i] = argItem /\ queue = DeleteAt(pre, i - 1)

\* the example of the spec: three elements of distinct keys, the middle one
\* removed, the smallest and the largest left
C6_Witness ==
    /\ IsOrdered /\ ordering = OrderingAsc /\ opName = "Remove" /\ retOk
    /\ Len(pre) = 3 /\ DistinctKeys(pre) /\ Present(pre, argItem)
    /\ pre[2] = argItem
    /\ queue = <<pre[1], pre[3]>>

\* ======================================================================
\* Properties of the retry path (specifications SpecRetry, SpecBackoff)
\* ======================================================================
InQueue(e) == \E i \in 1..Len(queue) : queue[i] = e
Held(e) == \E g \in Reqs : loops[g].item = e

\* e is an entry that this step built and pushed: it is in the queue after
\* the step, was not before, and is not an entry a loop had popped
IsNewEntry(e) ==
    /\ \E i \in 1..Len(queue') : queue'[i] = e
    /\ ~InQueue(e)
    /\ ~Held(e)

NewEntries == {e \in {queue'[i] : i \in 1..Len(queue')} : IsNewEntry(e)}

\* the delays of the claimed schedule for attemptCount 0..4
ClaimedDelay(n) ==
    CASE n \in {0, 1, 2} -> RetryDurationFactor
      [] n = 3 -> 4 * RetryDurationFactor
      [] n = 4 -> 5 * RetryDurationFactor

\* the delays the schedule has for attemptCount 0..4
ScheduleDelay(n) ==
    CASE n \in {0, 1, 2} -> RetryDurationFactor
      [] n = 3 -> 3 * RetryDurationFactor
      [] n = 4 -> 4 * RetryDurationFactor

\* C7 (as claimed): the delay between the current time and the trigger time
\* of a re-queued entry is factor, factor, factor, 4*factor, 5*factor for
\* attemptCount 0, 1, 2, 3, 4.
C7_BackoffScheduleClaimed ==
    [][\A e \in NewEntries :
        e.retries \in 0..4 => e.ov - clock = ClaimedDelay(e.retries)]_vars

\* C7 (amended): the delay between the current time and the trigger time of a
\* re-queued entry is factor, factor, factor, 3*factor, 4*factor for
\* attemptCount 0, 1, 2, 3, 4.
C7_BackoffSchedule ==
    [][\A e \in NewEntries :
        e.retries \in 0..4 => e.ov - clock = ScheduleDelay(e.retries)]_vars

\* an entry re-queued at attemptCount 4, after the original attempt and four
\* retries failed
C7_Witness ==
    \E i \in 1..Len(queue) :
        /\ queue[i].retries = 4
        /\ reqs[queue[i].id].dispatched = 5
        /\ queue[i].ov > 4 * RetryDurationFactor

\* C8: when a dispatch of request r fails and budget remains (the number n of
\* re-dispatches already performed is below the budget), an entry for r is
\* pushed whose trigger time is now + factor when n < 3 and
\* now + factor * n when n >= 3.
C8_BackoffLaw ==
    [][\A r \in Reqs :
        (/\ reqs'[r].dispatched = reqs[r].dispatched + 1
         /\ ~reqs'[r].succeeded
         /\ reqs[r].dispatched < reqs'[r].shouldRetry)
        => \E i \in 1..Len(queue') :
            /\ queue'[i].id = r
            /\ queue'[i].retries = reqs[r].dispatched
            /\ queue'[i].ov = clock + (IF reqs[r].dispatched < 3
                                       THEN RetryDurationFactor
                                       ELSE RetryDurationFactor * reqs[r].dispatched)]_vars

\* an entry pushed in the linear regime, at n = 3, waiting in the queue
\* while the clock has not reached its trigger time
C8_Witness ==
    \E i \in 1..Len(queue) :
        /\ queue[i].retries = 3
        /\ reqs[queue[i].id].dispatched = 4
        /\ queue[i].ov > clock

\* an entry for request r is in the container or in the hands of a loop
Live(r) ==
    \/ \E i \in 1..Len(queue) : queue[i].id = r
    \/ \E g \in Reqs : loops[g].item.id = r

\* C9: a request with budget B > 0 of which every dispatch failed is never
\* dispatched more than B + 1 times, is dispatched exactly B + 1 times once
\* nothing of it is pending any more, and after its (B+1)-th failure has no
\* entry in the container.
C9_BudgetExhaustion ==
    \A r \in Reqs :
        LET B == reqs[r].shouldRetry IN
        (reqs[r].dispatched >= 1 /\ B > 0 /\ ~reqs[r].succeeded) =>
            /\ reqs[r].dispatched <= B + 1
            /\ ~Live(r) => reqs[r].dispatched = B + 1
            /\ reqs[r].dispatched = B + 1 => ~Live(r)

\* a request with budget 3 that failed four times and is gone
C9_Witness ==
    \E r \in Reqs :
        /\ reqs[r].shouldRetry = 3 /\ reqs[r].dispatched = 4
        /\ ~reqs[r].succeeded /\ ~Live(r)

\* C10 (as claimed): at most one consumer loop runs and at most one ticker
\* was created, whatever the interleaving of the failing calls.
C10_SingleConsumer == Cardinality(Running) <= 1

\* C11: a panic raised inside the retry action during a tick is caught and
\* handled as a dispatch failure: the goroutine that dispatched it is not
\* ended by the panic, it is still in the consumer loop, and the entry it
\* held is accounted for as a failed dispatch (not left in its hands)
C11_PanicCaught ==
    \A g \in Reqs : loops[g].pc # "panicked" /\ (loops[g].item # NoEntry => loops[g].pc = "check")

\* the step of goroutine g that ends its tick: Pop found nothing, or the
\* entry popped was not due and was pushed back
TickEnds(g) == loops[g].pc \in {"pop", "check"} /\ loops'[g].pc = "wait"

\* C12: tick drain.  Within a tick a consumer sends again only entries with
\* triggerTimestamp <= the tick time, in non-decreasing triggerTimestamp
\* order and none twice, and when its tick ends every entry that was queued
\* and due when the tick began has been dispatched: it is no longer in the
\* container and in nobody's hands
C12_TickDrain ==
    [][\A g \in Reqs :
        /\ \A i \in 1..Len(loops'[g].done) :
              /\ loops'[g].done[i].ov <= loops'[g].tim
              /\ \A j \in 1..Len(loops'[g].done) :
                    i < j => /\ loops'[g].done[i] # loops'[g].done[j]
                             /\ loops'[g].done[i].ov <= loops'[g].done[j].ov
        /\ TickEnds(g) =>
              \A e \in loops[g].due :
                  /\ e \notin Range(queue')
                  /\ \A k \in Reqs : loops'[k].item # e]_vars

\* the entries of request r that exist: in the container or in the hands of
\* a goroutine between its Pop and the end of checkRetryEntity
Copies(r) ==
    Cardinality({i \in 1..Len(queue) : queue[i].id = r})
        + Cardinality({g \in Reqs : loops[g].item.id = r})

\* request r is neither answered nor given up: its last dispatch failed with
\* budget left
Pending(r) ==
    /\ reqs[r].dispatched >= 1
    /\ ~reqs[r].succeeded
    /\ HasBudget(reqs[r].dispatched - 1, reqs[r].shouldRetry)

\* C13: callers' pushes interleaved with the consumers' Pop / dispatch /
\* re-insert steps lose nothing and duplicate nothing: a request that is
\* pending has exactly one entry, in the container or held by a dispatching
\* goroutine, a request that succeeded or exhausted its budget has none, and
\* the container is sorted by triggerTimestamp
C13_NothingLost ==
    /\ \A r \in Reqs : Copies(r) = IF Pending(r) THEN 1 ELSE 0
    /\ SortedBy(queue, OrderingAsc)

\* a caller pushed its entry (first attempt, made after the tick time) while
\* a goroutine was inside a tick holding the entry of the other request
C13_Witness ==
    \E g \in Reqs, i \in 1..Len(queue) :
        /\ loops[g].pc = "check"
        /\ loops[g].item.id # queue[i].id
        /\ queue[i].retries = 0
        /\ queue[i].ov - RetryDurationFactor > loops[g].tim

\* ======================================================================
\* Concurrent Add calls (specification SpecAdders)
\* ======================================================================
\* the goroutines that call Add, and what they add
Calling == {t \in Adders : adders[t].pc # "none"}
Added == {adders[t].item : t \in Calling}
DistinctAdds ==
    \A t, u \in Calling : t # u => adders[t].item.ov # adders[u].item.ov

\* C14: N concurrent Add calls with pairwise distinct ordering values,
\* followed by Pop until empty: what the Pop calls have returned so far
\* followed by what is left is the N elements, each once, in the order of
\* the container's mode, and when Pop reports not-found all N were returned
C14_ConcurrentAdds ==
    (DistinctAdds /\ AllAdded) =>
        LET all == PoppedSoFar \o queue IN
        /\ Len(all) = Cardinality(Calling)
        /\ Range(all) = Added
        /\ SortedBy(all, ordering)
        /\ (opName = "Pop" /\ ~retOk) => queue = <<>> /\ Len(popped) = Cardinality(Calling)

\* MaxAdders goroutines added distinct values and Pop has returned them all
C14_Witness ==
    /\ DistinctAdds /\ AllAdded
    /\ Cardinality(Calling) = MaxAdders
    /\ opName = "Pop" /\ ~retOk
    /\ Len(popped) = MaxAdders

\* ======================================================================
\* Properties of the containers, continued (specification Spec)
\* ======================================================================
\* C15: no container operation blocks indefinitely: every operation, for
\* every argument value, completes and releases the container lock, so the
\* lock is free whenever no operation is in progress
C15_LockReleased == m = "unlocked"

\* C16: cutBefore(index) with index greater than the size removes and
\* returns the entire container, leaving it empty, without failing
C16_CutBeforeBeyondSize ==
    (opName = "CutBefore" /\ argInt > Len(pre)) =>
        /\ retOk /\ m = "unlocked"
        /\ retItems = pre
        /\ queue = <<>>

\* C17 as claimed: cutBefore(index) and cutAfter(index) with index < 0 both
\* return an empty cut and leave the contents unchanged
C17_NegativeCutIsNoop ==
    (opName \in {"CutBefore", "CutAfter"} /\ argInt < 0) =>
        /\ retItems = <<>>
        /\ queue = pre

\* C17 as the code has it: cutBefore(index) with index < 0 returns an empty
\* cut and leaves the contents unchanged; cutAfter(index) with index < 0
\* removes and returns the entire container; neither fails
C17_NegativeCut ==
    /\ (opName = "CutBefore" /\ argInt < 0) =>
            retOk /\ m = "unlocked" /\ retItems = <<>> /\ queue = pre
    /\ (opName = "CutAfter" /\ argInt < 0) =>
            retOk /\ m = "unlocked" /\ retItems = pre /\ queue = <<>>

\* cutAfter with a negative index was called on a container of two or more
C17_Witness == opName = "CutAfter" /\ argInt < 0 /\ Len(pre) >= 2

\* C18: cut conservation: for 0 <= index <= size, the result of
\* cutBefore(index) followed by the container's elements right after equals
\* the sequence before the cut, and the elements right after cutAfter(index)
\* followed by its result equals the sequence before the cut
C18_CutConservation ==
    /\ (opName = "CutBefore" /\ 0 <= argInt /\ argInt <= Len(pre)) =>
            retItems \o queue = pre
    /\ (opName = "CutAfter" /\ 0 <= argInt /\ argInt <= Len(pre)) =>
            queue \o retItems = pre

\* cutBefore was called with an index strictly inside a container
C18_Witness == opName = "CutBefore" /\ 0 < argInt /\ argInt < Len(pre)

\* C19: on an Ordered Container GetSize() is the length of what Elements()
\* returns (both read the container as it is and change nothing); the Pop
\* calls made in a row return the elements from the front in the order of
\* the container's mode, and when Pop reports not-found they have returned
\* everything that was in the container; Pop on an empty container reports
\* not-found and changes nothing
C19_PopSizeConsistency ==
    IsOrdered =>
        /\ opName = "GetSize" => retInt = Len(queue) /\ queue = pre
        /\ opName = "Elements" => retItems = queue /\ queue = pre
        /\ opName = "Pop" =>
               /\ popped \o queue = start
               /\ SortedBy(popped, ordering)
               /\ retOk = (pre # <<>>)
               /\ ~retOk => queue = pre /\ retItems = <<>> /\ popped = start

\* three or more elements, not all of one value, were popped one by one
\* until Pop reported not-found
C19_Witness ==
    /\ IsOrdered /\ opName = "Pop" /\ ~retOk
    /\ Len(popped) >= 3
    /\ popped[1].ov # popped[Len(popped)].ov

\* C20: popMany(maxResults) returns the first min(maxResults, size) elements
\* in container order together with that count and leaves the remaining
\* suffix; with maxResults <= 0 or an empty container it returns (nil, 0)
\* and changes nothing; it does not fail when maxResults exceeds the size
C20_PopMany ==
    opName = "PopMany" =>
        LET n == IF argInt < Len(pre) THEN argInt ELSE Len(pre) IN
        /\ m = "unlocked"
        /\ IF argInt <= 0 \/ pre = <<>>
           THEN retItems = <<>> /\ retInt = 0 /\ queue = pre
           ELSE /\ retItems = SubSeq(pre, 1, n)
                /\ retInt = n
                /\ queue = SubSeq(pre, n + 1, Len(pre))

\* popMany was called with more than the size on a container of two or more
C20_Witness == opName = "PopMany" /\ argInt > Len(pre) /\ Len(pre) >= 2 /\ retInt = Len(pre)

IsFIFO == impl = "FIFOQueue"

\* C21: FIFO Container invariant: Push puts the element behind all others,
\* Pop returns the element at the front (the oldest still present) and
\* keeps the rest, PopMany takes a prefix, Remove takes one element out of
\* the sequence, and Elements() lists the sequence: no operation reorders
\* the elements still present
C21_FIFOOrder ==
    IsFIFO =>
        /\ opName = "Push" => queue = Append(pre, argItem)
        /\ opName = "Pop" =>
               IF pre = <<>> THEN ~retOk /\ queue = pre
               ELSE retOk /\ retItems = <<Head(pre)>> /\ queue = Tail(pre)
        /\ opName = "PopMany" => retItems \o queue = pre
        /\ opName = "Remove" => queue = pre \/ IsOneDeleted(pre, queue, argItem.id)
        /\ opName = "Elements" => retItems = pre /\ queue = pre

\* Pop returned the oldest element of a FIFO container whose elements were
\* not pushed in the order of their ordering values
C21_Witness ==
    /\ IsFIFO /\ opName = "Pop" /\ retOk
    /\ Len(pre) >= 3
    /\ pre[1].ov > pre[2].ov

\* C22: FIFO Container remove(item) returns true exactly when an element
\* with item's identity is present, at whatever position, and then deletes
\* the first such element only, the others keeping their order; otherwise it
\* returns false and changes nothing
C22_FIFORemove ==
    (IsFIFO /\ opName = "Remove") =>
        LET S == {i \in 1..Len(pre) : pre[i].id = argItem.id} IN
        /\ retOk = (S # {})
        /\ m = "unlocked"
        /\ IF S = {} THEN queue = pre
           ELSE queue = SubSeq(pre, 1, SetMin(S) - 1) \o SubSeq(pre, SetMin(S) + 1, Len(pre))

\* remove(item) on a FIFO container that held two elements with item's
\* identity, the first of them not at the front
C22_Witness ==
    /\ IsFIFO /\ opName = "Remove" /\ retOk
    /\ pre[1].id # argItem.id
    /\ Cardinality({i \in 1..Len(pre) : pre[i].id = argItem.id}) >= 2

\* s without its i-th element (1-based)
WithoutIndex(s, i) == SubSeq(s, 1, i - 1) \o SubSeq(s, i + 1, Len(s))

\* C27: Ordered Container remove outcome is consistent with its effect: when
\* remove(item) returns false the sequence is unchanged, so an element with
\* item's identity that was present still is and GetElement finds it; when
\* it returns true exactly one element, with item's identity, was deleted,
\* the others keep their order and the container is still sorted
C27_RemoveFrame ==
    (IsOrdered /\ opName = "Remove") =>
        /\ m = "unlocked"
        /\ IF retOk
           THEN /\ \E i \in 1..Len(pre) :
                     pre[i].id = argItem.id /\ queue = WithoutIndex(pre, i)
                /\ SortedBy(queue, ordering)
           ELSE queue = pre /\ ScanForID(queue, argItem.id) = ScanForID(pre, argItem.id)

\* remove(item) returned false although an element with item's identity is
\* in the container
C27_Witness ==
    /\ IsOrdered /\ opName = "Remove" /\ ~retOk
    /\ ScanForID(queue, argItem.id) # <<>>

\* ======================================================================
\* The container's slice in memory (specification SpecMem)
\* ======================================================================
\* the slice q.queue holds the sequence the methods are meant to leave
MemRefines == MemContents(mem.heap, mem.q) = queue

\* C23: read-only operations leave the container unchanged and the snapshot
\* is isolated: the slice returned by Elements() always holds what its
\* caller expects (what it was given and wrote itself) whatever Add, Pop,
\* PopMany, Remove and the cuts did since; a step of First, Elements,
\* FindElements, GetElement or GetSize leaves the container's sequence as it
\* was, and so does a write of the caller into the slice it was given
C23_ReadOnlyAndSnapshot ==
    /\ [](MemContents(mem.heap, mem.snap) = mem.snapVal)
    /\ [][opName' \in {"First", "Elements", "FindElements", "GetElement", "GetSize", "Write"}
            => MemContents(mem'.heap, mem'.q) = MemContents(mem.heap, mem.q)]_vars

\* a caller holds the slice Elements() gave it, of two elements or more, and
\* Remove has since moved elements inside the container's array
C23_Witness ==
    /\ opName = "Remove"
    /\ mem.snap.len >= 2 /\ mem.q.len < mem.snap.len
    /\ mem.q.arr # 0 /\ MemCap(mem.heap, mem.q) > mem.q.len
    /\ \A i \in 1..mem.snap.len : mem.snapVal[i] # Scribble

\* ======================================================================
\* Creation and re-queueing of retry entries
\* ======================================================================
\* this step is the caller's HTTPQuery of request r (lines 329-405)
FirstCall(r) == reqs[r].pc = "idle" /\ reqs'[r].pc # "idle"

\* the attempt the step made for request r was sent and failed
AttemptFailed(r) ==
    /\ reqs'[r].dispatched = reqs[r].dispatched + 1
    /\ ~reqs'[r].succeeded

\* C24: a retry entry is created only when an attempt fails and the caller's
\* budget is non-zero.  A call that does not fail, or fails with budget 0,
\* leaves the pending container as it was, returns without reaching the test
\* of the consumer's timer and starts no consumer; a step whose attempt (the
\* original one or a re-dispatch) succeeds pushes no entry; and every entry
\* pushed belongs to a request whose attempt failed in that step with a
\* budget above 0.
C24_EntryOnlyOnFailure ==
    /\ [](\A r \in Reqs :
            (/\ reqs[r].pc # "idle"
             /\ \/ reqs[r].shouldRetry = 0
                \/ reqs[r].dispatched = 0
                \/ reqs[r].dispatched = 1 /\ reqs[r].succeeded)
            => /\ reqs[r].pc = "done"
               /\ loops[r].pc = "none"
               /\ ~Live(r))
    /\ [][/\ \A r \in Reqs :
              (FirstCall(r) /\ (~AttemptFailed(r) \/ reqs'[r].shouldRetry = 0))
              => (queue' = queue /\ loops' = loops)
          /\ \A r \in Reqs :
              (reqs'[r].dispatched = reqs[r].dispatched + 1 /\ reqs'[r].succeeded)
              => NewEntries = {}
          /\ \A e \in NewEntries :
              AttemptFailed(e.id) /\ reqs'[e.id].shouldRetry # 0]_vars

\* a call with budget 0 was sent, failed and returned: nothing is pending and
\* no consumer runs
C24_Witness ==
    \E r \in Reqs :
        /\ reqs[r].shouldRetry = 0 /\ reqs[r].dispatched = 1
        /\ ~reqs[r].succeeded /\ reqs[r].pc = "done"
        /\ queue = <<>> /\ Running = {}

\* C25: the entry created by the first failure carries attemptCount 0; when
\* a re-dispatch fails with budget remaining, an entry of the same request is
\* pushed whose attemptCount is the popped entry's plus one and whose trigger
\* time is strictly greater than the popped entry's and than the tick's
\* time; and within one tick of a consumer no request is dispatched twice.
C25_Requeue ==
    /\ [](\A g \in Reqs : \A i, j \in 1..Len(loops[g].done) :
            i # j => loops[g].done[i].id # loops[g].done[j].id)
    /\ [][/\ \A r \in Reqs : \A e \in NewEntries :
              (FirstCall(r) /\ e.id = r) => e.retries = 0
          /\ \A g \in Reqs :
              LET re == loops[g].item IN
              (/\ loops[g].pc = "check" /\ loops'[g].pc = "pop"
               /\ ~reqs'[re.id].succeeded
               /\ re.retries + 1 < re.shouldRetry)
              => /\ NewEntries # {}
                 /\ \A e \in NewEntries :
                      /\ e.id = re.id
                      /\ e.retries = re.retries + 1
                      /\ e.ov > re.ov
                      /\ e.ov > loops[g].tim]_vars

\* an entry pushed back by a failed re-dispatch waits in the container with
\* attemptCount 2, after the tick that dispatched its predecessor ended
C25_Witness ==
    \E i \in 1..Len(queue) :
        /\ queue[i].retries = 2
        /\ reqs[queue[i].id].dispatched = 3
        /\ queue[i].ov > clock
        /\ \A g \in Reqs : loops[g].pc \in {"none", "wait", "exit"}

\* C26 (as claimed): every dispatch of a request, the original attempt and
\* each re-dispatch, runs with the options of the original attempt (headers,
\* timeout, proxy, TLS settings and the accepted success status codes), and
\* every entry of the request carries the original retry budget.
C26_ConfigPreserved ==
    \A r \in Reqs :
        reqs[r].dispatched >= 1 =>
            /\ reqs[r].used = reqs[r].options
            /\ \A i \in 1..Len(queue) :
                 queue[i].id = r => queue[i].shouldRetry = reqs[r].shouldRetry

\* ======================================================================
\* package kafka
\* ======================================================================
\* C28 (as claimed): StopKafka(name) returns the not-found error only when no
\* instance is registered under name; when one is registered the call
\* returns no error, the instance's consumer is stopped and the name is
\* unregistered, so that GetKafka(name) fails with not-found.
C28_StopKafka ==
    /\ kafka.op = "StopKafka" =>
        /\ kafka.err = "not found" => ~kafka.found
        /\ kafka.found =>
            /\ kafka.err = "nil"
            /\ kafka.name \notin kafka.instances
            /\ ~kafka.cons[kafka.name].running
    /\ kafka.op = "GetKafka" =>
        (kafka.err = "not found" <=> kafka.name \notin kafka.instances)

\* the offsets of the messages handed to the callback after a read that
\* had succeeded
HandedOffsets(c) == {c.called[i].Offset : i \in {i \in 1..Len(c.called) : c.called[i].ok}}

\* C29 (as claimed): for each consumer's topic the callback is invoked only
\* with the value of a message that was successfully read, the offsets
\* handed to it are strictly increasing, the recorded offset is the greatest
\* offset of a read message handed to it (-1 before the first: a failed read
\* does not advance it), and every read message the guard dropped had been
\* handed to the callback before (none is skipped because of a failed read).
C29_DispatchGuard ==
    \A n \in Names :
        LET c == kafka.cons[n] IN
        /\ \A i \in 1..Len(c.called) :
             c.called[i].ok /\ c.called[i].Value = Payload(c.called[i].Offset)
        /\ \A i, j \in 1..Len(c.called) :
             i < j => c.called[i].Offset < c.called[j].Offset
        /\ c.Readers => c.OffsetDict = SetMax({0 - 1} \cup HandedOffsets(c))
        /\ c.skipped \subseteq HandedOffsets(c)

====
